---- MODULE Spec2Model ----
(***************************************************************************)
(* Model of the inline-markup parser of client_cpp/src/posts/models.hh:    *)
(* TextState (the formatting flags and the stack of insertion points),     *)
(* Post::parse_string and the chain parse_code > parse_spoilers >          *)
(* parse_bolds > parse_italics.                                            *)
(*                                                                         *)
(* Text is a sequence of one-character strings.  The node tree is an       *)
(* arena: nodes[k] is the k-th node created, with its tag, its text and    *)
(* the index of its parent (0 for the root); children of one parent are    *)
(* ordered by index, since append only ever adds a last child.  A Node*    *)
(* of the source is an index into the arena.                               *)
(***************************************************************************)
EXTENDS Integers, Sequences, FiniteSets, TLC

VARIABLES
    spoiler,    \* TextState::spoiler
    code,       \* TextState::code
    bold,       \* TextState::bold
    italic,     \* TextState::italic
    parents,    \* TextState::parents, lowermost parent last
    nodes,      \* the node tree under construction
    calls,      \* the active parse_string calls, innermost last
    fault,      \* "none", or the outcome of undefined behaviour
    fed,        \* history: the fragments given to parse_code since reset
    entry,      \* history: the four flags when the current pass began
    prev,       \* history: the last toggle and the state it found
    handed      \* history: per pass since reset, the texts handed to fn

vars == <<spoiler, code, bold, italic, parents, nodes, calls, fault, fed, entry, prev, handed>>

-----------------------------------------------------------------------------
(* Bounds of the model *)

\* longest first fragment drawn character by character
MaxLen == 3
\* longest first fragment drawn delimiter by delimiter
MaxToks == 4
\* parse_code calls between two resets
MaxPasses == 2
\* nodes a caller of the bare TextState interface creates
MaxNodes == 4

-----------------------------------------------------------------------------
(* Text.  The backquote character of the code delimiter is written "^". *)

Alphabet == {"a", ">", "^", "*", "_", "~"}

SepCode == <<"^", "^">>
SepSpoiler == <<"*", "*">>
SepBold == <<"_", "_">>
SepItalic == <<"~", "~">>

Tokens == {SepCode, SepSpoiler, SepBold, SepItalic, <<"a">>, <<">">>}

RECURSIVE Flatten(_)
Flatten(ss) == IF ss = <<>> THEN <<>> ELSE Head(ss) \o Flatten(Tail(ss))

CharStrings(n) == UNION {[1..k -> Alphabet] : k \in 0..n}
TokenStrings(n) == {Flatten(ts) : ts \in UNION {[1..k -> Tokens] : k \in 0..n}}

\* The fragments the specification's examples name.
ExSpoilerBold == <<"*","*","a","_","_","b","_","_","c","*","*">>
ExBoldSpoiler == <<"_","_","a","*","*","b","*","*","c","_","_">>
ExInvolution == <<"*","*","x","*","*","y","*","*","z","*","*">>
ExUnterminated == <<"*","*","u","n","t","e","r","m","i","n","a","t","e","d">>
ExMoreText == <<"m","o","r","e"," ","t","e","x","t","*","*">>
ExQuoteInCode == <<"^","^",">","n","o","t","^","^">>

Examples == {ExSpoilerBold, ExBoldSpoiler, ExInvolution, ExUnterminated, ExQuoteInCode}

FirstInputs == CharStrings(MaxLen) \cup TokenStrings(MaxToks) \cup Examples
\* A continuation pass is given one delimiter, one character or nothing.
ContInputs == Tokens \cup {<<>>, ExMoreText}

Last(s) == s[Len(s)]
Front(s) == SubSeq(s, 1, Len(s) - 1)

\* std::string_view::find: the first index at which sep occurs in frag, or 0
\* (the source's npos) when it does not occur.
Find(frag, sep) ==
    LET hits == {i \in 1..(Len(frag) - Len(sep) + 1) :
                    SubSeq(frag, i, i + Len(sep) - 1) = sep}
    IN  IF hits = {} THEN 0 ELSE CHOOSE i \in hits : \A j \in hits : i <= j

\* Mutant: the text before the match cut one character short.
Before_Short(frag, i) == SubSeq(frag, 1, i - 2)

\* frag.substr(0, i) and frag.substr(i + sep.size()) for a match at index i
Before(frag, i) == SubSeq(frag, 1, i - 1)

\* Mutant: the scan going on at the match itself.
After_NoAdvance(frag, i, sep) == SubSeq(frag, i, Len(frag))

\* Mutant: the scan going on one character after the match.
After_OneChar(frag, i, sep) == SubSeq(frag, i + 1, Len(frag))

After(frag, i, sep) == SubSeq(frag, i + Len(sep), Len(frag))

\* while (frag.size() && frag[0] == '>') frag = frag.substr(1);
RECURSIVE StripQuotes(_)
StripQuotes(frag) ==
    IF frag # <<>> /\ Head(frag) = ">" THEN StripQuotes(Tail(frag)) ELSE frag

\* The counter of the quote-stripping loop: declared 0 and never incremented.
NumQuotes(frag) == 0 * Len(frag)

\* for (int i = 0; i <= num_quotes; i++) s += "&gt;";
Escaped(num_quotes) == [i \in 1..(num_quotes + 1) |-> "&gt;"]

-----------------------------------------------------------------------------
(* TextState and the tree.  The operators below work on a record w holding   *)
(* the flags, the stack, the tree and ub, which is set once an operation     *)
(* with undefined behaviour (back() or pop_back() of an empty vector) ran.   *)

Node(tag, text) == [tag |-> tag, text |-> text]

World == [spoiler |-> spoiler, code |-> code, bold |-> bold, italic |-> italic,
          parents |-> parents, nodes |-> nodes, ub |-> FALSE]

\* TextState::reset: clear the flags, empty the stack, push the root.
reset(w) ==
    [spoiler |-> FALSE, code |-> FALSE, bold |-> FALSE, italic |-> FALSE,
     parents |-> <<1>>,
     nodes |-> <<[tag |-> "blockquote", text |-> <<>>, parent |-> 0]>>,
     ub |-> FALSE]

\* TextState::append: n becomes the last child of the lowermost parent and,
\* with descend, the next parent to append to.
append(w, n, descend) ==
    IF w.ub THEN w
    ELSE IF w.parents = <<>> THEN [w EXCEPT !.ub = TRUE]
    ELSE LET id == Len(w.nodes) + 1
         IN  [w EXCEPT
                !.nodes = Append(@, [tag |-> n.tag, text |-> n.text,
                                     parent |-> Last(w.parents)]),
                !.parents = IF descend THEN Append(@, id) ELSE @]

\* Mutant: ascend removing the entry below the lowermost parent.
ascend_Below(w) ==
    IF w.ub THEN w
    ELSE IF w.parents = <<>> THEN [w EXCEPT !.ub = TRUE]
    ELSE IF Len(w.parents) = 1 THEN [w EXCEPT !.parents = <<>>]
    ELSE [w EXCEPT !.parents = Append(SubSeq(@, 1, Len(@) - 2), @[Len(@)])]

\* TextState::ascend: parents.pop_back(), with no check of the size.
ascend(w) ==
    IF w.ub THEN w
    ELSE IF w.parents = <<>> THEN [w EXCEPT !.ub = TRUE]
    ELSE [w EXCEPT !.parents = Front(@)]

\* Post::highlight_syntax: the code text goes to the current insertion point.
highlight_syntax(w, frag) == append(w, Node("code", frag), FALSE)

\* The callback fn of parse_code: the text goes to the current insertion point.
fn(w, frag) == append(w, Node("#text", frag), FALSE)

-----------------------------------------------------------------------------
(* The on_match lambdas *)

\* parse_code: [this]() { state.code = !state.code; }
OnMatchCode(w) == [w EXCEPT !.code = ~@]

\* Mutants: the spoiler toggle leaving the inner levels where they are, never
\* closing, and ascending out of the inner levels without asking whether
\* they are open.
OnMatchSpoilers_InPlace(w) ==
    LET w3 == IF w.spoiler THEN ascend(w)
              ELSE append(w, Node("del", <<>>), TRUE)
    IN  [w3 EXCEPT !.spoiler = ~@]

OnMatchSpoilers_NeverCloses(w) ==
    LET w1 == IF w.italic THEN ascend(w) ELSE w
        w2 == IF w1.bold THEN ascend(w1) ELSE w1
        w3 == append(w2, Node("del", <<>>), TRUE)
        w4 == IF w3.bold THEN append(w3, Node("b", <<>>), TRUE) ELSE w3
        w5 == IF w4.italic THEN append(w4, Node("i", <<>>), TRUE) ELSE w4
    IN  [w5 EXCEPT !.spoiler = ~@]

OnMatchSpoilers_Unguarded(w) ==
    LET w1 == ascend(w)
        w2 == ascend(w1)
        w3 == IF w2.spoiler THEN ascend(w2)
              ELSE append(w2, Node("del", <<>>), TRUE)
        w4 == IF w3.bold THEN append(w3, Node("b", <<>>), TRUE) ELSE w3
        w5 == IF w4.italic THEN append(w4, Node("i", <<>>), TRUE) ELSE w4
    IN  [w5 EXCEPT !.spoiler = ~@]

\* Mutant: the spoiler toggle ascending out of the inner levels and not
\* opening them again.
OnMatchSpoilers_NoReopen(w) ==
    LET w1 == IF w.italic THEN ascend(w) ELSE w
        w2 == IF w1.bold THEN ascend(w1) ELSE w1
        w3 == IF w2.spoiler THEN ascend(w2)
              ELSE append(w2, Node("del", <<>>), TRUE)
    IN  [w3 EXCEPT !.spoiler = ~@]

OnMatchSpoilers(w) ==
    LET w1 == IF w.italic THEN ascend(w) ELSE w
        w2 == IF w1.bold THEN ascend(w1) ELSE w1
        w3 == IF w2.spoiler THEN ascend(w2)
              ELSE append(w2, Node("del", <<>>), TRUE)
        w4 == IF w3.bold THEN append(w3, Node("b", <<>>), TRUE) ELSE w3
        w5 == IF w4.italic THEN append(w4, Node("i", <<>>), TRUE) ELSE w4
    IN  [w5 EXCEPT !.spoiler = ~@]

\* Mutant: the bold toggle leaving an open italic level where it is.
OnMatchBolds_InPlace(w) ==
    LET w2 == IF w.bold THEN ascend(w)
              ELSE append(w, Node("b", <<>>), TRUE)
    IN  [w2 EXCEPT !.bold = ~@]

OnMatchBolds(w) ==
    LET w1 == IF w.italic THEN ascend(w) ELSE w
        w2 == IF w1.bold THEN ascend(w1)
              ELSE append(w1, Node("b", <<>>), TRUE)
        w3 == IF w2.italic THEN append(w2, Node("i", <<>>), TRUE) ELSE w2
    IN  [w3 EXCEPT !.bold = ~@]

OnMatchItalics(w) ==
    LET w1 == IF w.italic THEN ascend(w)
              ELSE append(w, Node("i", <<>>), TRUE)
    IN  [w1 EXCEPT !.italic = ~@]

\* if (state.code) in parse_code's filler: the text is code, not markup.
InCode_Never(w) == FALSE

InCode(w) == w.code

\* The state.code branch of parse_code's filler.
FillerInCode(w, frag) ==
    LET rest == StripQuotes(frag)
        num_quotes == NumQuotes(frag)
        w1 == IF num_quotes # 0
              THEN append(w, Node("span", Escaped(num_quotes)), FALSE)
              ELSE w
    IN  highlight_syntax(w1, rest)

-----------------------------------------------------------------------------
(* parse_string as a machine: a frame is one call, at the find of line 216   *)
(* ("find") or at the on_match of line 220 ("on_match").                     *)

\* A frame also keeps, as history, the fragment the call was given (orig) and
\* the calls of filler and on_match it has made so far (trace).
Frame(f, frag) == [fn |-> f, frag |-> frag, pc |-> "find", orig |-> frag, trace |-> <<>>]

FillerEvent(text) == [op |-> "filler", text |-> text]
OnMatchEvent == [op |-> "on_match", text |-> <<>>]

Top == Last(calls)
At(f, pc) == calls # <<>> /\ Top.fn = f /\ Top.pc = pc /\ fault # "abort"

\* The frames left after the find of the top call for sep: with a match the
\* call goes on to on_match with the rest of the fragment, without one it
\* returns after its filler.
AfterFind(sep) ==
    LET i == Find(Top.frag, sep)
    IN  IF i # 0
        THEN Append(Front(calls),
                    [Top EXCEPT !.frag = After(Top.frag, i, sep), !.pc = "on_match",
                                !.trace = Append(@, FillerEvent(Before(Top.frag, i)))])
        ELSE Front(calls)

\* The frames after the on_match of the top call: it goes back to its find.
Resume ==
    Append(Front(calls), [Top EXCEPT !.pc = "find", !.trace = Append(@, OnMatchEvent)])

\* The text the filler of the top call is given.
Filled(sep) ==
    LET i == Find(Top.frag, sep)
    IN  IF i # 0 THEN Before(Top.frag, i) ELSE Top.frag

Flags == <<spoiler, code, bold, italic>>

Commit(w) ==
    IF w.ub
    THEN /\ \E o \in {"abort", "corrupt"} : fault' = o
         /\ UNCHANGED <<spoiler, code, bold, italic, parents, nodes>>
    ELSE /\ spoiler' = w.spoiler
         /\ code' = w.code
         /\ bold' = w.bold
         /\ italic' = w.italic
         /\ parents' = w.parents
         /\ nodes' = w.nodes
         /\ fault' = fault

Tags(ps) == [k \in 1..Len(ps) |-> nodes[ps[k]].tag]

Snapshot(level, flag) == [level |-> level, flag |-> flag, tags |-> Tags(parents)]
NoToggle == [level |-> "none", flag |-> FALSE, tags |-> <<>>]

-----------------------------------------------------------------------------
(* Actions *)

Init ==
    /\ spoiler = FALSE /\ code = FALSE /\ bold = FALSE /\ italic = FALSE
    /\ parents = <<>>
    /\ nodes = <<>>
    /\ calls = <<>>
    /\ fault = "none"
    /\ fed = <<>>
    /\ entry = <<FALSE, FALSE, FALSE, FALSE>>
    /\ prev = NoToggle
    /\ handed = <<>>

\* state.reset(&root) before a body is parsed
Reset ==
    /\ calls = <<>> /\ fault # "abort"
    /\ Commit(reset(World))
    /\ fed' = <<>>
    /\ entry' = <<FALSE, FALSE, FALSE, FALSE>>
    /\ prev' = NoToggle
    /\ handed' = <<>>
    /\ UNCHANGED calls

\* parse_code(frag, fn) on a fragment, the state being what the last pass left
ParseCode ==
    /\ calls = <<>> /\ fault # "abort"
    /\ nodes # <<>>
    /\ Len(fed) < MaxPasses
    /\ \E frag \in (IF fed = <<>> THEN FirstInputs ELSE ContInputs) :
         /\ calls' = <<Frame("parse_code", frag)>>
         /\ fed' = Append(fed, frag)
    /\ entry' = Flags
    /\ handed' = Append(handed, <<>>)
    /\ UNCHANGED <<spoiler, code, bold, italic, parents, nodes, fault, prev>>

\* parse_string of parse_code, lines 216-223, with its filler
CodeFind ==
    /\ At("parse_code", "find")
    /\ IF InCode(World)
       THEN /\ Commit(FillerInCode(World, Filled(SepCode)))
            /\ calls' = AfterFind(SepCode)
       ELSE /\ calls' = Append(AfterFind(SepCode),
                               Frame("parse_spoilers", Filled(SepCode)))
            /\ UNCHANGED <<spoiler, code, bold, italic, parents, nodes, fault>>
    /\ UNCHANGED <<fed, entry, prev, handed>>

CodeToggle ==
    /\ At("parse_code", "on_match")
    /\ Commit(OnMatchCode(World))
    /\ calls' = Resume
    /\ prev' = Snapshot("code", code)
    /\ UNCHANGED <<fed, entry, handed>>

SpoilersFind ==
    /\ At("parse_spoilers", "find")
    /\ calls' = Append(AfterFind(SepSpoiler), Frame("parse_bolds", Filled(SepSpoiler)))
    /\ UNCHANGED <<spoiler, code, bold, italic, parents, nodes, fault, fed, entry, prev, handed>>

SpoilersToggle ==
    /\ At("parse_spoilers", "on_match")
    /\ Commit(OnMatchSpoilers(World))
    /\ calls' = Resume
    /\ prev' = Snapshot("spoiler", spoiler)
    /\ UNCHANGED <<fed, entry, handed>>

BoldsFind ==
    /\ At("parse_bolds", "find")
    /\ calls' = Append(AfterFind(SepBold), Frame("parse_italics", Filled(SepBold)))
    /\ UNCHANGED <<spoiler, code, bold, italic, parents, nodes, fault, fed, entry, prev, handed>>

BoldsToggle ==
    /\ At("parse_bolds", "on_match")
    /\ Commit(OnMatchBolds(World))
    /\ calls' = Resume
    /\ prev' = Snapshot("bold", bold)
    /\ UNCHANGED <<fed, entry, handed>>

ItalicsFind ==
    /\ At("parse_italics", "find")
    /\ Commit(fn(World, Filled(SepItalic)))
    /\ calls' = AfterFind(SepItalic)
    /\ handed' = [handed EXCEPT ![Len(handed)] = Append(@, Filled(SepItalic))]
    /\ UNCHANGED <<fed, entry, prev>>

ItalicsToggle ==
    /\ At("parse_italics", "on_match")
    /\ Commit(OnMatchItalics(World))
    /\ calls' = Resume
    /\ prev' = Snapshot("italic", italic)
    /\ UNCHANGED <<fed, entry, handed>>

Next ==
    \/ Reset
    \/ ParseCode
    \/ CodeFind
    \/ CodeToggle
    \/ SpoilersFind
    \/ SpoilersToggle
    \/ BoldsFind
    \/ BoldsToggle
    \/ ItalicsFind
    \/ ItalicsToggle

Spec == Init /\ [][Next]_vars

-----------------------------------------------------------------------------
(* The public interface of TextState called directly, in any order, as a    *)
(* caller outside the parse_ chain may.                                     *)

ApiReset ==
    /\ fault # "abort"
    /\ Commit(reset(World))
    /\ UNCHANGED <<calls, fed, entry, prev, handed>>

ApiAppend ==
    /\ fault # "abort"
    /\ Len(nodes) < MaxNodes
    /\ \E tag \in {"del", "b", "i"}, descend \in BOOLEAN :
         Commit(append(World, Node(tag, <<>>), descend))
    /\ UNCHANGED <<calls, fed, entry, prev, handed>>

ApiAscend ==
    /\ fault # "abort"
    /\ Commit(ascend(World))
    /\ UNCHANGED <<calls, fed, entry, prev, handed>>

ApiNext ==
    \/ ApiReset
    \/ ApiAppend
    \/ ApiAscend

ApiSpec == Init /\ [][ApiNext]_vars

-----------------------------------------------------------------------------
(* Reading the tree *)

\* The nodes from the root down to node k, k included.
RECURSIVE Path(_, _)
Path(ns, k) == IF k = 0 THEN <<>> ELSE Append(Path(ns, ns[k].parent), k)

TagsOf(ns, ps) == [j \in 1..Len(ps) |-> ns[ps[j]].tag]

\* The tags of the elements node k lies in, outermost first, the root left out.
AncestorTags(ns, k) == Tail(TagsOf(ns, Path(ns, ns[k].parent)))

\* Tag outer is the tag of a proper ancestor of a node tagged inner.
Encloses(ns, outer, inner) ==
    \E k \in 1..Len(ns) :
        /\ ns[k].tag = inner
        /\ \E j \in 1..Len(AncestorTags(ns, k)) : AncestorTags(ns, k)[j] = outer

Done == calls = <<>> /\ fed # <<>>

\* The nodes holding exactly the text t.
Holding(t) == {k \in 1..Len(nodes) : nodes[k].tag = "#text" /\ nodes[k].text = t}

-----------------------------------------------------------------------------
(* Claims *)

C2_SpoilerOutsideBold ==
    [][(At("parse_italics", "find") /\ spoiler /\ bold) =>
          /\ Len(nodes') = Len(nodes) + 1
          /\ nodes'[Len(nodes')].text = Filled(SepItalic)
          /\ SubSeq(AncestorTags(nodes', Len(nodes')), 1, 2) = <<"del", "b">>
          /\ \A j \in 3..Len(AncestorTags(nodes', Len(nodes'))) :
                AncestorTags(nodes', Len(nodes'))[j] \notin {"del", "b"}
      ]_vars

\* C2 witness: __a**b**c__ is parsed and its b lies in del > b.
C2_Witness ==
    /\ fed = <<ExBoldSpoiler>> /\ Done
    /\ \E k \in Holding(<<"b">>) : AncestorTags(nodes, k) = <<"del", "b">>

\* The second of two toggles of one level with only text between them.
Again(level) == At(level.fn, "on_match") /\ prev.level = level.name

LevelSpoiler == [fn |-> "parse_spoilers", name |-> "spoiler"]
LevelBold == [fn |-> "parse_bolds", name |-> "bold"]
LevelItalic == [fn |-> "parse_italics", name |-> "italic"]

\* C3: the same delimiter (**, __ or ~~) met twice with only text between
\* returns its flag to the value before the first and the insertion stack to
\* the same depth and tag sequence; **x**y**z** gives two del elements, both
\* children of the root, x in the first, z in the second, y in neither, and
\* ends with the spoiler flag false.
C3_Involution ==
    /\ [][/\ Again(LevelSpoiler) => spoiler' = prev.flag
          /\ Again(LevelBold) => bold' = prev.flag
          /\ Again(LevelItalic) => italic' = prev.flag
          /\ (Again(LevelSpoiler) \/ Again(LevelBold) \/ Again(LevelItalic)) =>
                TagsOf(nodes', parents') = prev.tags
         ]_vars
    /\ []((fed = <<ExInvolution>> /\ Done) =>
            /\ ~spoiler
            /\ parents = <<1>>
            /\ \E x \in Holding(<<"x">>), y \in Holding(<<"y">>), z \in Holding(<<"z">>) :
                /\ nodes[y].parent = 1
                /\ nodes[x].parent # nodes[z].parent
                /\ nodes[nodes[x].parent] = [tag |-> "del", text |-> <<>>, parent |-> 1]
                /\ nodes[nodes[z].parent] = [tag |-> "del", text |-> <<>>, parent |-> 1]
                /\ x < y /\ y < nodes[z].parent
                /\ Cardinality({k \in 1..Len(nodes) : nodes[k].tag = "del"}) = 2)

\* C3 witness: a spoiler span was closed by the second of two ** while bold
\* and italic were open, and the stack is as it was before the first.
C3_Witness ==
    /\ prev.level = "spoiler" /\ prev.flag /\ ~spoiler
    /\ bold /\ italic
    /\ prev.tags = <<"blockquote", "del", "b", "i">>
    /\ TagsOf(nodes, parents) = <<"blockquote", "b", "i">>
    /\ \E k \in Holding(<<"a">>) : AncestorTags(nodes, k) = <<"del", "b", "i">>

\* C4: a pass over **unterminated ends with the spoiler flag true, the next
\* pass begins with it true, and a pass over more text** that goes on from
\* that state puts its text in the spoiler element the first pass opened and
\* ends with the flag false and the insertion point at the root, which is
\* never popped.
C4_RestartPersistence ==
    /\ (fed = <<ExUnterminated>> /\ Done) =>
          spoiler /\ TagsOf(nodes, parents) = <<"blockquote", "del">>
    /\ (Len(fed) = 2 /\ fed[1] = ExUnterminated) => entry[1]
    /\ (fed = <<ExUnterminated, ExMoreText>>) =>
          parents # <<>> /\ parents[1] = 1 /\ fault = "none"
    /\ (fed = <<ExUnterminated, ExMoreText>> /\ Done) =>
          /\ ~spoiler
          /\ parents = <<1>>
          /\ \E u \in Holding(SubSeq(ExUnterminated, 3, Len(ExUnterminated))),
                m \in Holding(SubSeq(ExMoreText, 1, Len(ExMoreText) - 2)) :
                /\ nodes[m].parent = nodes[u].parent
                /\ AncestorTags(nodes, m) = <<"del">>

\* C4 witness: both passes are over.
C4_Witness == fed = <<ExUnterminated, ExMoreText>> /\ Done /\ ~spoiler

\* The number of leading > characters of a fragment.
RECURSIVE LeadingQuotes(_)
LeadingQuotes(frag) ==
    IF frag # <<>> /\ Head(frag) = ">" THEN 1 + LeadingQuotes(Tail(frag)) ELSE 0

\* C5: the leading > characters of a fragment processed while a code span is
\* open are stripped and appended as a span of escaped text (one &gt; each)
\* before the highlighted code.
C5_QuotesReemitted ==
    [][(At("parse_code", "find") /\ code /\ LeadingQuotes(Filled(SepCode)) > 0) =>
          nodes' = nodes \o
            << [tag |-> "span",
                text |-> [j \in 1..LeadingQuotes(Filled(SepCode)) |-> "&gt;"],
                parent |-> Last(parents)],
               [tag |-> "code", text |-> StripQuotes(Filled(SepCode)),
                parent |-> Last(parents)] >>
      ]_vars

\* C6: ascend() called when the stack holds only the root ends in a fatal
\* error instead of popping the root.
C6_AscendAtRootIsFatal ==
    [][(ApiAscend /\ Len(parents) = 1) => (fault' = "abort" /\ parents' = parents)]_vars

\* C7: once reset has run, whatever is fed through parse_code, the stack is
\* never empty, its first entry is the root, and no undefined pop or append
\* has run.
C7_RootStays ==
    nodes # <<>> => (parents # <<>> /\ parents[1] = 1 /\ fault = "none")

\* C7 witness: in the middle of a pass the last toggle closed a span of
\* spoiler, bold or italic and left the root alone on the stack.
C7_Witness ==
    /\ calls # <<>>
    /\ prev.level \in {"spoiler", "bold", "italic"} /\ prev.flag
    /\ parents = <<1>>
    /\ Len(nodes) > 2

\* C8 as stated: while the code flag is true the find of parse_code changes
\* no flag and no stack entry, calls no inner scanner, and appends one code
\* node holding the whole text up to the next code delimiter.
C8_CodeTextWhole ==
    [][(At("parse_code", "find") /\ code) =>
          /\ <<spoiler, code, bold, italic, parents>>' = <<spoiler, code, bold, italic, parents>>
          /\ \A j \in 1..Len(calls') : calls'[j].fn = "parse_code"
          /\ nodes' = Append(nodes, [tag |-> "code", text |-> Filled(SepCode),
                                     parent |-> Last(parents)])
      ]_vars

\* C8 as amended: while the code flag is true the find of parse_code changes
\* no flag and no stack entry, calls no inner scanner, and appends one code
\* node holding, in one piece, the text up to the next code delimiter less
\* its leading > characters.
C8_CodeBypass ==
    [][(At("parse_code", "find") /\ code) =>
          /\ <<spoiler, code, bold, italic, parents>>' = <<spoiler, code, bold, italic, parents>>
          /\ \A j \in 1..Len(calls') : calls'[j].fn = "parse_code"
          /\ nodes' = Append(nodes, [tag |-> "code", text |-> StripQuotes(Filled(SepCode)),
                                     parent |-> Last(parents)])
      ]_vars

\* C8 witness: a code node holds **, __ and ~~ unsplit, and no flag but code
\* has been set.
C8_Witness ==
    /\ code /\ ~spoiler /\ ~bold /\ ~italic /\ parents = <<1>>
    /\ \E k \in 1..Len(nodes) :
        /\ nodes[k].tag = "code"
        /\ \E sep \in {SepSpoiler, SepBold, SepItalic} : Find(nodes[k].text, sep) # 0

\* One left-to-right scan of a fragment: flags is <<spoiler, code, bold,
\* italic>>, each turned over by its delimiter, those of spoiler, bold and
\* italic only outside code.
Flip(flags, n) == [flags EXCEPT ![n] = ~@]

RECURSIVE Scan(_, _)
Scan(frag, flags) ==
    IF Len(frag) < 2 THEN flags
    ELSE LET two == SubSeq(frag, 1, 2)
             rest == SubSeq(frag, 3, Len(frag))
         IN  IF two = SepCode THEN Scan(rest, Flip(flags, 2))
             ELSE IF ~flags[2] /\ two = SepSpoiler THEN Scan(rest, Flip(flags, 1))
             ELSE IF ~flags[2] /\ two = SepBold THEN Scan(rest, Flip(flags, 3))
             ELSE IF ~flags[2] /\ two = SepItalic THEN Scan(rest, Flip(flags, 4))
             ELSE Scan(Tail(frag), flags)

\* C9: no fragment, balanced or not, leads to an error, every pass comes to
\* its end, and at the end each flag has been turned over once per delimiter
\* of its kind recognised in the fragment (outside code, for spoiler, bold
\* and italic): from all flags false, it is true exactly for an odd number.
C9_UnmatchedIsNoError ==
    /\ fault = "none"
    /\ (calls # <<>>) =>
          \E f \in {"parse_code", "parse_spoilers", "parse_bolds", "parse_italics"},
             pc \in {"find", "on_match"} : At(f, pc)
    /\ Done => Flags = Scan(Last(fed), entry)

\* C9 witness: a pass that began with all flags false has ended with spoiler
\* and italic left open and bold closed.
C9_Witness ==
    /\ Done /\ Len(fed) = 1
    /\ spoiler /\ italic /\ ~bold /\ ~code
    /\ Find(fed[1], SepBold) # 0

\* The effect section 4.3 gives a toggle: open says whether the level is
\* open, tag is its element, inner the tags of the open inner levels,
\* outermost first.
ToggleEffect(open, tag, inner) ==
    LET gone == (IF open THEN <<tag>> ELSE <<>>) \o inner
        new == (IF open THEN <<>> ELSE <<tag>>) \o inner
        below == SubSeq(parents, 1, Len(parents) - Len(gone))
    IN  /\ Len(parents) > Len(gone)
        /\ TagsOf(nodes, SubSeq(parents, Len(below) + 1, Len(parents))) = gone
        /\ nodes' = nodes \o
              [j \in 1..Len(new) |->
                  [tag |-> new[j], text |-> <<>>,
                   parent |-> IF j = 1 THEN Last(below) ELSE Len(nodes) + j - 1]]
        /\ parents' = below \o [j \in 1..Len(new) |-> Len(nodes) + j]
        /\ Len(parents') = Len(parents) + (IF open THEN -1 ELSE 1)

If(flag, tag) == IF flag THEN <<tag>> ELSE <<>>

SpoilerToggleEffect ==
    At("parse_spoilers", "on_match") =>
        /\ ToggleEffect(spoiler, "del", If(bold, "b") \o If(italic, "i"))
        /\ spoiler' = ~spoiler /\ UNCHANGED <<code, bold, italic>>

BoldToggleEffect ==
    At("parse_bolds", "on_match") =>
        /\ ToggleEffect(bold, "b", If(italic, "i"))
        /\ bold' = ~bold /\ UNCHANGED <<code, spoiler, italic>>

ItalicToggleEffect ==
    At("parse_italics", "on_match") =>
        /\ ToggleEffect(italic, "i", <<>>)
        /\ italic' = ~italic /\ UNCHANGED <<code, spoiler, bold>>

OnStackAfter(inner) ==
    /\ Len(parents') > Len(inner)
    /\ TagsOf(nodes', SubSeq(parents', Len(parents') - Len(inner) + 1, Len(parents'))) = inner

\* C11: a toggle turns over the flag of its own level and no other flag, and
\* the inner levels that were open before it are open after it, with their
\* elements the last entries of the insertion stack.
C11_OnlyOwnFlag ==
    [][/\ At("parse_spoilers", "on_match") =>
            /\ spoiler' = ~spoiler /\ UNCHANGED <<code, bold, italic>>
            /\ OnStackAfter(If(bold, "b") \o If(italic, "i"))
       /\ At("parse_bolds", "on_match") =>
            /\ bold' = ~bold /\ UNCHANGED <<code, spoiler, italic>>
            /\ OnStackAfter(If(italic, "i"))
       /\ At("parse_italics", "on_match") =>
            /\ italic' = ~italic /\ UNCHANGED <<code, spoiler, bold>>
       /\ At("parse_code", "on_match") =>
            /\ code' = ~code /\ UNCHANGED <<spoiler, bold, italic>>
            /\ OnStackAfter(If(spoiler, "del") \o If(bold, "b") \o If(italic, "i"))
      ]_vars

\* C11 witness: __ has just closed a bold span around an open italic level,
\* which is on the stack again.
C11_Witness ==
    /\ prev.level = "bold" /\ prev.flag /\ ~bold /\ italic /\ ~spoiler
    /\ prev.tags = <<"blockquote", "b", "i">>
    /\ TagsOf(nodes, parents) = <<"blockquote", "i">>
    /\ parents[2] = Len(nodes)

\* The elements of the open spans, outermost first.
OpenSpans == If(spoiler, "del") \o If(bold, "b") \o If(italic, "i")

\* C14: after reset the insertion stack is the root followed by one element
\* per open flag, in the order del, b, i, each the child of the entry below
\* it, so its depth is 1 plus the number of open flags among spoiler, bold
\* and italic; and a text handed to fn is appended under exactly the
\* elements of the open spans.
C14_StackMirrorsFlags ==
    /\ [](nodes # <<>> =>
            /\ TagsOf(nodes, parents) = <<"blockquote">> \o OpenSpans
            /\ Len(parents) = 1 + Cardinality({n \in {1, 3, 4} : Flags[n]})
            /\ parents[1] = 1
            /\ \A j \in 2..Len(parents) : nodes[parents[j]].parent = parents[j - 1])
    /\ [][At("parse_italics", "find") =>
            /\ nodes' = Append(nodes, [tag |-> "#text", text |-> Filled(SepItalic),
                                       parent |-> Last(parents)])
            /\ AncestorTags(nodes', Len(nodes')) = OpenSpans
         ]_vars

\* C14 witness: bold was opened first, then italic, then spoiler, and a text
\* was appended under del > b > i with the stack four deep.
C14_Witness ==
    /\ fed # <<>> /\ Find(fed[1], SepBold) = 1
    /\ spoiler /\ bold /\ italic /\ Len(parents) = 4
    /\ nodes[Len(nodes)].tag = "#text" /\ nodes[Len(nodes)].text # <<>>
    /\ nodes[Len(nodes)].parent = parents[4]

\* Node k is the last child of its parent: no sibling was appended after it,
\* so the children of its parent were not moved since it was created.
LastChild(ns, k) == \A m \in (k + 1)..Len(ns) : ns[m].parent # ns[k].parent

\* C15: the stack begins with the root, every entry is a node of the tree,
\* and every entry above the root is the last child of the entry directly
\* below it: no append has added a sibling after a node the stack refers to.
C15_StackIsLastChildPath ==
    nodes # <<>> =>
        /\ parents # <<>> /\ parents[1] = 1
        /\ \A j \in 1..Len(parents) : parents[j] \in 1..Len(nodes)
        /\ \A j \in 2..Len(parents) :
              /\ nodes[parents[j]].parent = parents[j - 1]
              /\ LastChild(nodes, parents[j])

\* C15 witness: the stack is three deep in a tree that holds a closed del
\* element, an earlier child of the root the stack no longer refers to.
C15_Witness ==
    /\ Len(parents) = 3
    /\ \E k \in 2..Len(nodes) :
        /\ nodes[k].tag = "del" /\ nodes[k].parent = 1
        /\ k < parents[2] /\ ~LastChild(nodes, k)

\* The delimiter each scanner splits on.
SepOf(f) ==
    CASE f = "parse_code" -> SepCode
      [] f = "parse_spoilers" -> SepSpoiler
      [] f = "parse_bolds" -> SepBold
      [] f = "parse_italics" -> SepItalic

\* A variant of the pass: every call weighs its remaining fragment, its
\* place in the chain and its pending on_match.
Rank(f) ==
    CASE f = "parse_code" -> 8
      [] f = "parse_spoilers" -> 6
      [] f = "parse_bolds" -> 4
      [] f = "parse_italics" -> 2

Weight(c) == 5 * Len(c.frag) + Rank(c.fn) + (IF c.pc = "on_match" THEN 1 ELSE 0)

RECURSIVE Measure(_)
Measure(cs) == IF cs = <<>> THEN 0 ELSE Weight(Head(cs)) + Measure(Tail(cs))

Scanners == {"parse_code", "parse_spoilers", "parse_bolds", "parse_italics"}

\* C13: a pass terminates: a find that meets the delimiter leaves its call a
\* strictly shorter fragment, every step of a pass lowers a variant that is
\* never negative, and a pass that is not over can take a step.
C13_PassTerminates ==
    /\ [][\A f \in Scanners :
            (At(f, "find") /\ Find(Top.frag, SepOf(f)) # 0) =>
                /\ Len(calls') >= Len(calls)
                /\ calls'[Len(calls)].fn = f
                /\ calls'[Len(calls)].pc = "on_match"
                /\ Len(calls'[Len(calls)].frag) < Len(Top.frag)
         ]_vars
    /\ [][calls # <<>> => Measure(calls') < Measure(calls)]_vars
    /\ [](calls # <<>> => \E f \in Scanners, pc \in {"find", "on_match"} : At(f, pc))

\* C13 witness: a pass is over in which each of the four scanners met its
\* delimiter.
C13_Witness ==
    /\ Done /\ Len(fed) = 1
    /\ \A f \in Scanners : Find(fed[1], SepOf(f)) # 0
    /\ spoiler /\ bold /\ italic /\ code

\* The pieces of a fragment between the occurrences of a delimiter, read
\* character by character from the left, no two occurrences overlapping; cur
\* is the piece being read.
RECURSIVE Split(_, _, _)
Split(frag, sep, cur) ==
    IF frag = <<>> THEN <<cur>>
    ELSE IF Len(frag) >= Len(sep) /\ SubSeq(frag, 1, Len(sep)) = sep
         THEN <<cur>> \o Split(SubSeq(frag, Len(sep) + 1, Len(frag)), sep, <<>>)
         ELSE Split(Tail(frag), sep, Append(cur, Head(frag)))

\* The calls a parse_string makes on a fragment with these pieces: filler on
\* each piece, on_match between two of them.
Alternation(pieces) ==
    [j \in 1..(2 * Len(pieces) - 1) |->
        IF j % 2 = 1 THEN FillerEvent(pieces[(j + 1) \div 2]) ELSE OnMatchEvent]

\* C12: a parse_string on a fragment with k occurrences of its delimiter
\* calls filler k+1 times and on_match k times, beginning and ending with
\* filler and alternating, the fillers being given the pieces between the
\* occurrences in order (empty pieces too); until it returns, the calls made
\* so far are the beginning of that sequence, the last one a filler exactly
\* when on_match is due.
C12_FillerToggleAlternate ==
    /\ [](\A j \in 1..Len(calls) :
            LET c == calls[j]
                all == Alternation(Split(c.orig, SepOf(c.fn), <<>>))
            IN  /\ Len(c.trace) < Len(all)
                /\ c.trace = SubSeq(all, 1, Len(c.trace))
                /\ (c.pc = "on_match") <=> (Len(c.trace) % 2 = 1))
    /\ [][\A f \in Scanners :
            (At(f, "find") /\ Find(Top.frag, SepOf(f)) = 0) =>
                /\ Append(Top.trace, FillerEvent(Filled(SepOf(f))))
                      = Alternation(Split(Top.orig, SepOf(f), <<>>))
                /\ Len(calls') <= Len(calls)
                /\ \A j \in 1..Len(calls') : j >= Len(calls) => calls'[j].fn # f
         ]_vars

\* C12 witness: parse_spoilers, given a fragment with two adjacent
\* delimiters and one at its end, has called filler on the empty text
\* between them and is about to call it on the empty text at the end.
C12_Witness ==
    /\ At("parse_spoilers", "find")
    /\ Top.frag = <<>> /\ Top.orig # <<>>
    /\ Len(Top.trace) = 6
    /\ Top.trace[3] = FillerEvent(<<>>)
    /\ Top.trace[5].text # <<>>

\* A fragment with the delimiters of spoiler, bold and italic taken out, read
\* from the left.
RECURSIVE Unmarked(_)
Unmarked(frag) ==
    IF frag = <<>> THEN <<>>
    ELSE IF Len(frag) >= 2 /\ SubSeq(frag, 1, 2) \in {SepSpoiler, SepBold, SepItalic}
         THEN Unmarked(SubSeq(frag, 3, Len(frag)))
         ELSE <<Head(frag)>> \o Unmarked(Tail(frag))

\* The children of node k, in the order they were appended.
RECURSIVE Ascending(_)
Ascending(S) ==
    IF S = {} THEN <<>>
    ELSE LET m == CHOOSE x \in S : \A y \in S : x <= y
         IN  <<m>> \o Ascending(S \ {m})

Children(ns, k) == Ascending({m \in 1..Len(ns) : ns[m].parent = k})

\* The nodes of the subtree of k in document order.
RECURSIVE DocOrder(_, _)
DocOrder(ns, k) ==
    LET kids == Children(ns, k)
    IN  <<k>> \o Flatten([j \in 1..Len(kids) |-> DocOrder(ns, kids[j])])

\* The texts of the text nodes of the tree, in document order.
TextsInTree ==
    LET order == SelectSeq(DocOrder(nodes, 1), LAMBDA k : nodes[k].tag = "#text")
    IN  [j \in 1..Len(order) |-> nodes[order[j]].text]

\* C16: at the end of a pass in which the code flag was never open, the texts
\* handed to fn, in call order, make up the fragment with every recognised
\* **, __ and ~~ taken out; and the texts handed to fn since reset are the
\* texts of the tree in document order.
C16_TextPreserved ==
    /\ (Done /\ ~entry[2] /\ Find(Last(fed), SepCode) = 0) =>
          Flatten(Last(handed)) = Unmarked(Last(fed))
    /\ nodes # <<>> => TextsInTree = Flatten(handed)

\* C16 witness: **a__b__c** has been parsed: fn was handed a, b and c, with
\* an empty text before and after, and the tree holds them in that order in
\* the del element and, for b, the b element inside it.
C16_Witness ==
    /\ fed = <<ExSpoilerBold>> /\ Done
    /\ handed = <<<< <<>>, <<"a">>, <<"b">>, <<"c">>, <<>> >>>>
    /\ \E a \in Holding(<<"a">>), b \in Holding(<<"b">>), c \in Holding(<<"c">>) :
          /\ nodes[a].parent = nodes[c].parent
          /\ nodes[nodes[b].parent].parent = nodes[a].parent
          /\ a < b /\ b < c

====
